---- MODULE Spec2Model ----
(***************************************************************************)
(* Model of the certificates API v0 views                                  *)
(* (lms/djangoapps/certificates/apis/v0/views.py) and of the proctored     *)
(* exam permission exercised by lms/djangoapps/courseware/tests/           *)
(* test_rules.py.                                                          *)
(*                                                                         *)
(* Spec      : the certificate store is drawn in Init (the views only read *)
(*             it); the actions are the two GET handlers.                  *)
(* SpecPerm  : enroll / unenroll / has_perm for can_take_proctored_exam.   *)
(***************************************************************************)
EXTENDS Integers, Sequences, FiniteSets

VARIABLES
    certificates,  \* certificate rows, in the order the certificates api returns them
    overviews,     \* course overview rows, in the order the table returns them
    profiles,      \* per account, visible_fields(user.profile, user)
    request,       \* the request handled last
    response,      \* the Response it returned
    calls,         \* the store lookups made while handling it
    enrollment,    \* per student, the enrollment mode in the course
    permCheck      \* the has_perm call made last and its result

vars == <<certificates, overviews, profiles, request, response, calls,
          enrollment, permCheck>>

certVars == <<certificates, overviews, profiles, request, response, calls>>
permVars == <<enrollment, permCheck>>

----------------------------------------------------------------------------
(* Bounds *)

\* largest number of certificate rows the target user "alice" holds
MaxCerts == 2
\* creation timestamps range over 1..MaxDate
MaxDate == 2

----------------------------------------------------------------------------
(* Users *)

\* usernames with a User row; "ghost" has none
Accounts == {"alice", "bob", "admin"}

\* request.user of an authenticated requester
Requesters == { [username |-> "alice", is_staff |-> FALSE],
                [username |-> "bob",   is_staff |-> FALSE],
                [username |-> "admin", is_staff |-> TRUE] }

NoRequester == [username |-> "", is_staff |-> FALSE]

----------------------------------------------------------------------------
(* Course keys.  A course id string is modelled as its sequence of tokens. *)

Separators == {"course-v1:", "+", "/"}

IsName(t) == t \notin Separators

NewStyle(s) ==
    /\ Len(s) = 6
    /\ s[1] = "course-v1:" /\ s[3] = "+" /\ s[5] = "+"
    /\ IsName(s[2]) /\ IsName(s[4]) /\ IsName(s[6])

OldStyle(s) ==
    /\ Len(s) = 5
    /\ s[2] = "/" /\ s[4] = "/"
    /\ IsName(s[1]) /\ IsName(s[3]) /\ IsName(s[5])

\* CourseKey.from_string raises InvalidKeyError exactly when this is FALSE
CourseKey_parses(course_id) == NewStyle(course_id) \/ OldStyle(course_id)

\* CourseKey.from_string, for a string that parses
CourseKey_from_string(course_id) ==
    IF NewStyle(course_id)
    THEN [org |-> course_id[2], course |-> course_id[4], run |-> course_id[6],
          deprecated |-> FALSE]
    ELSE [org |-> course_id[1], course |-> course_id[3], run |-> course_id[5],
          deprecated |-> TRUE]

\* six.text_type(course_key)
text_type(course_key) ==
    IF course_key.deprecated
    THEN <<course_key.org, "/", course_key.course, "/", course_key.run>>
    ELSE <<"course-v1:", course_key.org, "+", course_key.course, "+",
           course_key.run>>

K1 == [org |-> "edX", course |-> "DemoX", run |-> "T1", deprecated |-> FALSE]
K2 == [org |-> "edX", course |-> "DemoX", run |-> "Demo_Course",
       deprecated |-> TRUE]
CourseKeys == {K1, K2}

\* course_id URI elements tried by the requests
CourseIdStrings == { text_type(K1), text_type(K2),
                     <<"edX", "+", "DemoX">>,
                     <<"course-v1:", "edX", "/", "DemoX", "/", "T1">> }

----------------------------------------------------------------------------
(* The certificate store: rows as the certificates api returns them *)

Dates == 1..MaxDate

\* A certificate row.  Fields that the views only copy are derived from the
\* ones that decide the control flow, with values distinct per field.
Cert(username, course_key, created, is_passing) ==
    [username     |-> username,
     course_key   |-> course_key,
     type         |-> IF course_key.deprecated THEN "honor" ELSE "verified",
     created      |-> created,
     modified     |-> created + 1,
     status       |-> IF is_passing THEN "downloadable" ELSE "notpassing",
     is_passing   |-> is_passing,
     download_url |-> <<"http://www.example.com/", username, course_key.run>>,
     grade        |-> IF is_passing THEN "0.98" ELSE "0.40"]

\* rows "alice" may hold: a passing row of any date, a failing row of date 1
AliceCerts ==
    { Cert("alice", k, d, TRUE) : k \in CourseKeys, d \in Dates }
      \cup { Cert("alice", k, 1, FALSE) : k \in CourseKeys }

\* "bob" holds at most this one row
BobCert == Cert("bob", K1, 1, TRUE)

RECURSIVE SeqsUpTo(_, _)
SeqsUpTo(S, n) ==
    IF n = 0 THEN { <<>> }
    ELSE LET shorter == SeqsUpTo(S, n - 1)
         IN  shorter \cup { Append(s, x) : s \in {t \in shorter : Len(t) = n - 1},
                                           x \in S }

\* no two rows are equal in every field (rows are distinct records); rows of
\* one user may share a course key
Distinct(s) == \A i, j \in 1..Len(s) : i # j => s[i] # s[j]

CertificateStores ==
    { a \o b : a \in { s \in SeqsUpTo(AliceCerts, MaxCerts) : Distinct(s) },
               b \in { <<>>, <<BobCert>> } }

\* A course overview row
Overview(course_key, viewable) ==
    [id                        |-> course_key,
     certificates_viewable     |-> viewable,
     display_name_with_default |-> <<"Course", course_key.run>>,
     display_org_with_default  |-> <<"Org", course_key.org>>]

Overviews == { Overview(k, v) : k \in CourseKeys, v \in BOOLEAN }

\* the overview table, in the order its rows are returned; ids are unique
OverviewStores ==
    { s \in SeqsUpTo(Overviews, Cardinality(CourseKeys)) :
        \A i, j \in 1..Len(s) : i # j => s[i].id # s[j].id }

\* profiles[u] = visible_fields(user.profile, user) of account u
ProfileStores ==
    { [u \in Accounts |-> IF u \in V THEN {"username", "course_certificates"}
                                     ELSE {"username"}] : V \in { {}, {"alice"} } }

----------------------------------------------------------------------------
(* Data access used by the views *)

\* get_certificate_for_user(username, course_key): the set of rows the lookup
\* may return; the empty set stands for None
get_certificate_for_user(username, course_key) ==
    { certificates[i] : i \in { j \in 1..Len(certificates) :
          /\ certificates[j].username = username
          /\ certificates[j].course_key = course_key } }

\* get_certificates_for_user(username): the user's rows, in store order
get_certificates_for_user(username) ==
    SelectSeq(certificates, LAMBDA c : c.username = username)

\* CourseOverview.get_from_ids_if_exists(ids).items(), in table order
get_from_ids_if_exists(ids) ==
    SelectSeq(overviews, LAMBDA o : o.id \in ids)

\* certificates_viewable_for_course(course_overview)
certificates_viewable_for_course(course_overview) ==
    course_overview.certificates_viewable

\* User.objects.select_related('profile').get(username=...) finds a row
User_exists(username) == username \in Accounts

\* visible_fields(user.profile, user)
visible_fields(username) == profiles[username]

----------------------------------------------------------------------------
(* CertificatesDetailView *)

LookupCert == "get_certificate_for_user"
LookupCerts == "get_certificates_for_user"
LookupOverviews == "get_from_ids_if_exists"

\* Mutant: created_date is read from the row's 'modified' entry
DetailData_created_from_modified(user_cert) ==
    [username         |-> user_cert.username,
     course_id        |-> text_type(user_cert.course_key),
     certificate_type |-> user_cert.type,
     created_date     |-> user_cert.modified,
     status           |-> user_cert.status,
     is_passing       |-> user_cert.is_passing,
     download_url     |-> user_cert.download_url,
     grade            |-> user_cert.grade]

\* the body of the 200 response of CertificatesDetailView.get
DetailData(user_cert) ==
    [username         |-> user_cert.username,
     course_id        |-> text_type(user_cert.course_key),
     certificate_type |-> user_cert.type,
     created_date     |-> user_cert.created,
     status           |-> user_cert.status,
     is_passing       |-> user_cert.is_passing,
     download_url     |-> user_cert.download_url,
     grade            |-> user_cert.grade]

\* Mutant: the certificate lookup runs before the course id is validated, and
\* a course id that does not parse finds nothing
detail_lookup_before_validation(username, course_id) ==
    LET found == IF CourseKey_parses(course_id)
                 THEN get_certificate_for_user(username,
                                               CourseKey_from_string(course_id))
                 ELSE {}
    IN  IF found = {}
        THEN { [status |-> 404,
                data   |-> [error_code |-> "no_certificate_for_user"],
                calls  |-> {LookupCert}] }
        ELSE { [status |-> 200,
                data   |-> DetailData(user_cert),
                calls  |-> {LookupCert}] : user_cert \in found }

\* Mutant: a missing certificate is reported with the malformed-id code
detail_wrong_error_code(username, course_id) ==
    IF ~CourseKey_parses(course_id)
    THEN { [status |-> 404,
            data   |-> [error_code |-> "course_id_not_valid"],
            calls  |-> {}] }
    ELSE LET found == get_certificate_for_user(username,
                                               CourseKey_from_string(course_id))
         IN  IF found = {}
             THEN { [status |-> 404,
                     data   |-> [error_code |-> "course_id_not_valid"],
                     calls  |-> {LookupCert}] }
             ELSE { [status |-> 200,
                     data   |-> DetailData(user_cert),
                     calls  |-> {LookupCert}] : user_cert \in found }

\* CertificatesDetailView.get: the responses the request may get, each with
\* the set of store lookups made while handling it
CertificatesDetailView_get(username, course_id) ==
    IF ~CourseKey_parses(course_id)
    THEN { [status |-> 404,
            data   |-> [error_code |-> "course_id_not_valid"],
            calls  |-> {}] }
    ELSE LET course_key == CourseKey_from_string(course_id)
             found == get_certificate_for_user(username, course_key)
         IN  IF found = {}
             THEN { [status |-> 404,
                     data   |-> [error_code |-> "no_certificate_for_user"],
                     calls  |-> {LookupCert}] }
             ELSE { [status |-> 200,
                     data   |-> DetailData(user_cert),
                     calls  |-> {LookupCert}] : user_cert \in found }

----------------------------------------------------------------------------
(* CertificatesListView *)

\* Mutant: every requester may view an existing user's certificates
viewable_by_anyone(user, username) == User_exists(username)

\* Mutant: the staff test is missing
viewable_by_owner_or_public(user, username) ==
    IF ~User_exists(username)
    THEN FALSE
    ELSE \/ user.username = username
         \/ "course_certificates" \in visible_fields(username)

\* Mutant: a missing user is taken as one with nothing visible, and the owner
\* and staff tests still apply
viewable_without_user_check(user, username) ==
    \/ user.username = username
    \/ user.is_staff
    \/ User_exists(username)
         /\ "course_certificates" \in visible_fields(username)

\* CertificatesListView._viewable_by_requestor; user is request.user
_viewable_by_requestor(user, username) ==
    IF ~User_exists(username)
    THEN FALSE
    ELSE LET is_owner == user.username = username
             is_staff == user.is_staff
             certificates_viewable ==
                 "course_certificates" \in visible_fields(username)
         IN  is_owner \/ is_staff \/ certificates_viewable

\* Mutant: the is_passing test is missing
passing_certificates_unfiltered(course_certificates) ==
    LET all == 1..Len(course_certificates)
        keys == { course_certificates[i].course_key : i \in all }
        last(k) == CHOOSE i \in all :
                     /\ course_certificates[i].course_key = k
                     /\ \A j \in all :
                          course_certificates[j].course_key = k => j <= i
    IN  [k \in keys |-> course_certificates[last(k)]]

\* the dict passing_certificates: course key -> the last passing row with it
passing_certificates(course_certificates) ==
    LET passing == { i \in 1..Len(course_certificates) :
                       course_certificates[i].is_passing }
        keys == { course_certificates[i].course_key : i \in passing }
        last(k) == CHOOSE i \in passing :
                     /\ course_certificates[i].course_key = k
                     /\ \A j \in passing :
                          course_certificates[j].course_key = k => j <= i
    IN  [k \in keys |-> course_certificates[last(k)]]

\* the row with the overview's display name and organization attached
with_course(course_certificate, course_overview) ==
    [username            |-> course_certificate.username,
     course_key          |-> course_certificate.course_key,
     type                |-> course_certificate.type,
     created             |-> course_certificate.created,
     modified            |-> course_certificate.modified,
     status              |-> course_certificate.status,
     is_passing          |-> course_certificate.is_passing,
     download_url        |-> course_certificate.download_url,
     grade               |-> course_certificate.grade,
     course_display_name |-> course_overview.display_name_with_default,
     course_organization |-> course_overview.display_org_with_default]

\* list.sort(key=created): a stable insertion sort
RECURSIVE insert_by_created(_, _)
insert_by_created(sorted, c) ==
    IF sorted = <<>> THEN <<c>>
    ELSE IF sorted[Len(sorted)].created <= c.created
         THEN Append(sorted, c)
         ELSE Append(insert_by_created(SubSeq(sorted, 1, Len(sorted) - 1), c),
                     sorted[Len(sorted)])

\* Mutant: the list is returned unsorted
sort_missing(list) == list

RECURSIVE sort_by_created(_)
sort_by_created(list) ==
    IF list = <<>> THEN <<>>
    ELSE insert_by_created(sort_by_created(SubSeq(list, 1, Len(list) - 1)),
                           list[Len(list)])

\* the loop building viewable_certificates
viewable_certificates(passing) ==
    LET items == get_from_ids_if_exists(DOMAIN passing)
        viewable == SelectSeq(items, certificates_viewable_for_course)
    IN  [i \in 1..Len(viewable) |-> with_course(passing[viewable[i].id],
                                                viewable[i])]

\* CertificatesListView._get_certificates_for_user
_get_certificates_for_user(username) ==
    sort_by_created(
        viewable_certificates(
            passing_certificates(get_certificates_for_user(username))))

\* one entry of the list response
ListEntry(user_cert) ==
    [username            |-> user_cert.username,
     course_id           |-> text_type(user_cert.course_key),
     course_display_name |-> user_cert.course_display_name,
     course_organization |-> user_cert.course_organization,
     certificate_type    |-> user_cert.type,
     created_date        |-> user_cert.created,
     modified_date       |-> user_cert.modified,
     status              |-> user_cert.status,
     is_passing          |-> user_cert.is_passing,
     download_url        |-> user_cert.download_url,
     grade               |-> user_cert.grade]

\* CertificatesListView.get: the response and the store lookups made
CertificatesListView_get(user, username) ==
    IF _viewable_by_requestor(user, username)
    THEN LET certs == _get_certificates_for_user(username)
         IN  [status |-> 200,
              data   |-> [i \in 1..Len(certs) |-> ListEntry(certs[i])],
              calls  |-> {LookupCerts, LookupOverviews}]
    ELSE [status |-> 200, data |-> <<>>, calls |-> {}]

----------------------------------------------------------------------------
(* Proctored exam permission *)

Modes == {"audit", "honor", "verified", "masters", "professional",
          "no-id-professional"}
NoEnrollment == "<none>"

Absent == "<absent>"

\* settings.PROCTORING_BACKENDS
PROCTORING_BACKENDS ==
    [b \in {"mock_proctoring_allow_honor_mode", "mock_proctoring_without_rules"}
       |-> [allow_honor_mode |-> b = "mock_proctoring_allow_honor_mode"]]

\* values of the context's optional 'backend' and 'is_proctored' entries
ContextBackends == DOMAIN PROCTORING_BACKENDS \cup {"unconfigured", Absent}
ContextProctored == {"True", "False", Absent}

Students == {"alice", "bob"}

\* the named backend's configuration flags allow_honor_mode
allow_honor_mode(backend) ==
    /\ backend \in DOMAIN PROCTORING_BACKENDS
    /\ PROCTORING_BACKENDS[backend].allow_honor_mode

\* Mutant: honor mode is always an appropriate mode
has_perm_honor_always(mode, backend, is_proctored) ==
    mode \in {"honor", "verified", "masters", "professional"}

\* user.has_perm('edx_proctoring.can_take_proctored_exam', context), with
\* mode the user's enrollment in context['course_id']
has_perm(mode, backend, is_proctored) ==
    \/ mode \in {"verified", "masters", "professional"}
    \/ mode = "honor" /\ allow_honor_mode(backend)

----------------------------------------------------------------------------
(* Specifications *)

NoRequest == [view |-> "none", user |-> NoRequester, username |-> "",
              course_id |-> <<>>]
NoResponse == [status |-> 0, data |-> <<>>]
NoCheck == [user |-> "", mode |-> NoEnrollment, backend |-> Absent,
            is_proctored |-> Absent, result |-> FALSE, done |-> FALSE]

Init ==
    /\ certificates \in CertificateStores
    /\ overviews \in OverviewStores
    /\ profiles \in ProfileStores
    /\ request = NoRequest
    /\ response = NoResponse
    /\ calls = {}
    /\ enrollment = [u \in Students |-> NoEnrollment]
    /\ permCheck = NoCheck

\* GET /api/certificates/v0/certificates/{username}/courses/{course_id}
DetailGet ==
    \E username \in {"alice", "ghost"}, course_id \in CourseIdStrings :
      \E r \in CertificatesDetailView_get(username, course_id) :
        /\ request' = [view |-> "detail", user |-> NoRequester,
                       username |-> username, course_id |-> course_id]
        /\ response' = [status |-> r.status, data |-> r.data]
        /\ calls' = r.calls
        /\ UNCHANGED <<certificates, overviews, profiles, permVars>>

\* GET /api/certificates/v0/certificates/{username}
ListGet ==
    \E user \in Requesters, username \in {"alice", "bob", "ghost"} :
      LET r == CertificatesListView_get(user, username)
      IN  /\ request' = [view |-> "list", user |-> user,
                         username |-> username, course_id |-> <<>>]
          /\ response' = [status |-> r.status, data |-> r.data]
          /\ calls' = r.calls
          /\ UNCHANGED <<certificates, overviews, profiles, permVars>>

Next == DetailGet \/ ListGet

Spec == Init /\ [][Next]_vars

InitPerm ==
    /\ certificates = <<>>
    /\ overviews = <<>>
    /\ profiles = [u \in Accounts |-> {"username"}]
    /\ request = NoRequest
    /\ response = NoResponse
    /\ calls = {}
    /\ enrollment = [u \in Students |-> NoEnrollment]
    /\ permCheck = NoCheck

\* CourseEnrollment.enroll(user, course_id, mode=mode)
Enroll ==
    \E u \in Students, mode \in Modes :
      /\ enrollment' = [enrollment EXCEPT ![u] = mode]
      /\ UNCHANGED <<certVars, permCheck>>

\* CourseEnrollment.unenroll(user, course_id)
Unenroll ==
    \E u \in Students :
      /\ enrollment' = [enrollment EXCEPT ![u] = NoEnrollment]
      /\ UNCHANGED <<certVars, permCheck>>

\* user.has_perm('edx_proctoring.can_take_proctored_exam', context)
HasPerm ==
    \E u \in Students, backend \in ContextBackends,
       is_proctored \in ContextProctored :
      /\ permCheck' = [user |-> u, mode |-> enrollment[u],
                       backend |-> backend, is_proctored |-> is_proctored,
                       result |-> has_perm(enrollment[u], backend, is_proctored),
                       done |-> TRUE]
      /\ UNCHANGED <<certVars, enrollment>>

NextPerm == Enroll \/ Unenroll \/ HasPerm

SpecPerm == InitPerm /\ [][NextPerm]_vars

----------------------------------------------------------------------------
(* Properties *)

IsDetail == request.view = "detail"
IsList == request.view = "list"

\* the store holds a certificate row of this user for this course
RecordExists(username, course_key) ==
    \E i \in 1..Len(certificates) :
      /\ certificates[i].username = username
      /\ certificates[i].course_key = course_key

\* the overview table holds a viewable row of this course
CourseViewable(course_key) ==
    \E o \in 1..Len(overviews) :
      /\ overviews[o].id = course_key
      /\ overviews[o].certificates_viewable

NotValidBody == [error_code |-> "course_id_not_valid"]
NoCertificateBody == [error_code |-> "no_certificate_for_user"]

\* C1: a detail request whose course_id does not parse is answered 404
\* course_id_not_valid, whatever the store holds, and makes no certificate
\* lookup.
C1_InvalidCourseId ==
    (IsDetail /\ ~CourseKey_parses(request.course_id)) =>
        /\ response = [status |-> 404, data |-> NotValidBody]
        /\ calls = {}

C1_Witness ==
    /\ IsDetail
    /\ ~CourseKey_parses(request.course_id)
    /\ \E i \in 1..Len(certificates) :
         certificates[i].username = request.username
    /\ response.status = 404

\* C2: a detail request with a valid course_id and no record for (username,
\* course key) is answered 404 no_certificate_for_user, a code other than the
\* one for a malformed id; that answer is never given when a record exists.
C2_NoCertificate ==
    IsDetail =>
        /\ ( /\ CourseKey_parses(request.course_id)
             /\ ~RecordExists(request.username,
                              CourseKey_from_string(request.course_id)) )
             => response = [status |-> 404, data |-> NoCertificateBody]
        /\ (response.status = 404 /\ response.data = NoCertificateBody)
             => /\ CourseKey_parses(request.course_id)
                /\ ~RecordExists(request.username,
                                 CourseKey_from_string(request.course_id))
        /\ NoCertificateBody # NotValidBody

C2_Witness ==
    /\ IsDetail
    /\ CourseKey_parses(request.course_id)
    /\ ~RecordExists(request.username,
                     CourseKey_from_string(request.course_id))
    /\ \E i \in 1..Len(certificates) :
         certificates[i].username = request.username
    /\ response.status = 404

\* the request is a detail request for a record the store holds
DetailFound ==
    /\ IsDetail
    /\ CourseKey_parses(request.course_id)
    /\ RecordExists(request.username, CourseKey_from_string(request.course_id))

\* C3 (as amended): a detail request for an existing record is answered 200
\* with a record of exactly eight fields, each taken from a looked-up row:
\* username, course id, certificate type, creation timestamp, status, passing
\* flag, download URL, grade.  The modification timestamp is not among them.
C3_DetailEightFields ==
    DetailFound =>
        /\ response.status = 200
        /\ \E i \in 1..Len(certificates) :
             LET c == certificates[i]
             IN  /\ c.username = request.username
                 /\ c.course_key = CourseKey_from_string(request.course_id)
                 /\ response.data =
                      [username         |-> c.username,
                       course_id        |-> text_type(c.course_key),
                       certificate_type |-> c.type,
                       created_date     |-> c.created,
                       status           |-> c.status,
                       is_passing       |-> c.is_passing,
                       download_url     |-> c.download_url,
                       grade            |-> c.grade]

C3_Witness ==
    /\ DetailFound
    /\ response.status = 200
    /\ response.data.is_passing

\* C3 (as claimed): a detail request for an existing record is answered 200
\* with a record of nine fields, the modification timestamp included.
C3_DetailNineFields ==
    DetailFound =>
        /\ response.status = 200
        /\ \E i \in 1..Len(certificates) :
             LET c == certificates[i]
             IN  /\ c.username = request.username
                 /\ c.course_key = CourseKey_from_string(request.course_id)
                 /\ response.data =
                      [username         |-> c.username,
                       course_id        |-> text_type(c.course_key),
                       certificate_type |-> c.type,
                       created_date     |-> c.created,
                       modified_date    |-> c.modified,
                       status           |-> c.status,
                       is_passing       |-> c.is_passing,
                       download_url     |-> c.download_url,
                       grade            |-> c.grade]

\* the target's profile exposes course_certificates
TargetPublic ==
    /\ request.username \in Accounts
    /\ "course_certificates" \in profiles[request.username]

\* the target holds a passing certificate of a viewable course
TargetHoldsViewable ==
    \E i \in 1..Len(certificates) :
      /\ certificates[i].username = request.username
      /\ certificates[i].is_passing
      /\ CourseViewable(certificates[i].course_key)

\* C4: a list request by a requester who is not the owner and not staff, for
\* a target whose visible fields lack course_certificates, is answered 200
\* with an empty array whatever the target holds.
C4_UnauthorizedEmpty ==
    ( /\ IsList
      /\ request.user.username # request.username
      /\ ~request.user.is_staff
      /\ ~TargetPublic )
        => response = [status |-> 200, data |-> <<>>]

C4_Witness ==
    /\ IsList
    /\ request.user.username # request.username
    /\ ~request.user.is_staff
    /\ request.username \in Accounts
    /\ ~TargetPublic
    /\ TargetHoldsViewable
    /\ response.data = <<>>

\* the list entry e shows the certificate row c
EntryOf(e, c) ==
    /\ e.username = c.username
    /\ e.course_id = text_type(c.course_key)
    /\ e.certificate_type = c.type
    /\ e.created_date = c.created
    /\ e.modified_date = c.modified
    /\ e.status = c.status
    /\ e.is_passing = c.is_passing
    /\ e.download_url = c.download_url
    /\ e.grade = c.grade

\* C5: every entry of a list response is a certificate of the target user
\* that is passing and whose course has a viewable overview.
C5_OnlyPassingViewable ==
    IsList =>
        \A j \in 1..Len(response.data) :
          \E i \in 1..Len(certificates) :
            /\ certificates[i].username = request.username
            /\ certificates[i].is_passing
            /\ CourseViewable(certificates[i].course_key)
            /\ EntryOf(response.data[j], certificates[i])

C5_Witness ==
    /\ IsList
    /\ Len(response.data) >= 1
    /\ \E i \in 1..Len(certificates) :
         /\ certificates[i].username = request.username
         /\ ~certificates[i].is_passing
         /\ CourseViewable(certificates[i].course_key)
    /\ \E i \in 1..Len(certificates) :
         certificates[i].username # request.username

QualifyingRows ==
    { i \in 1..Len(certificates) :
        /\ certificates[i].username = request.username
        /\ certificates[i].is_passing
        /\ CourseViewable(certificates[i].course_key) }

\* C7: the owner's list response is 200 and holds every passing certificate
\* of a viewable course exactly once, with the display name and organization
\* of the overview of its course; none is lost, also when several rows have
\* the same course key.
C7_OwnerGetsAllCertificates ==
    (IsList /\ request.user.username = request.username) =>
        /\ response.status = 200
        /\ Len(response.data) = Cardinality(QualifyingRows)
        /\ \A i \in QualifyingRows :
             \E j \in 1..Len(response.data) :
               /\ EntryOf(response.data[j], certificates[i])
               /\ \E o \in 1..Len(overviews) :
                    /\ overviews[o].id = certificates[i].course_key
                    /\ response.data[j].course_display_name =
                         overviews[o].display_name_with_default
                    /\ response.data[j].course_organization =
                         overviews[o].display_org_with_default

\* owner, staff or public profile
Authorized(user) ==
    \/ user.username = request.username
    \/ user.is_staff
    \/ TargetPublic

\* C8: for an existing target, a staff requester, and any requester when the
\* profile exposes course_certificates, gets the body the owner gets; two
\* requesters for whom owner-or-staff-or-visible agrees get the same response.
C8_AuthorizedSameAsOwner ==
    (IsList /\ request.username \in Accounts) =>
        /\ (request.user.is_staff \/ TargetPublic) =>
             \A owner \in Requesters :
               owner.username = request.username =>
                 response.data =
                   CertificatesListView_get(owner, request.username).data
        /\ \A other \in Requesters :
             (Authorized(other) <=> Authorized(request.user)) =>
               LET r == CertificatesListView_get(other, request.username)
               IN  response = [status |-> r.status, data |-> r.data]

C8_Witness ==
    /\ IsList
    /\ request.username \in Accounts
    /\ request.user.is_staff
    /\ request.user.username # request.username
    /\ ~TargetPublic
    /\ Len(response.data) >= 1

\* C9: has_perm for can_take_proctored_exam is false with no enrollment, with
\* audit and with no-id-professional; true with verified, masters and
\* professional; with honor it is false when no backend is named and true
\* only when the named backend's configuration sets allow_honor_mode.
C9_ProctoringPerm ==
    permCheck.done =>
        /\ permCheck.mode \in {NoEnrollment, "audit", "no-id-professional"}
             => ~permCheck.result
        /\ permCheck.mode \in {"verified", "masters", "professional"}
             => permCheck.result
        /\ permCheck.mode = "honor" =>
             /\ permCheck.backend = Absent => ~permCheck.result
             /\ permCheck.result =>
                  /\ permCheck.backend \in DOMAIN PROCTORING_BACKENDS
                  /\ PROCTORING_BACKENDS[permCheck.backend].allow_honor_mode
             /\ ( /\ permCheck.backend \in DOMAIN PROCTORING_BACKENDS
                  /\ PROCTORING_BACKENDS[permCheck.backend].allow_honor_mode )
                  => permCheck.result

C9_Witness ==
    /\ permCheck.done
    /\ permCheck.mode = "honor"
    /\ permCheck.result
    /\ enrollment[permCheck.user] = "honor"

\* C10: a list request for a username with no account is answered 200 with
\* an empty array for every requester, staff included, and makes neither the
\* certificate lookup nor the overview lookup.
C10_UnknownTarget ==
    (IsList /\ request.username \notin Accounts) =>
        /\ response = [status |-> 200, data |-> <<>>]
        /\ calls = {}

C10_Witness ==
    /\ IsList
    /\ request.username \notin Accounts
    /\ request.user.is_staff
    /\ \E i \in 1..Len(certificates) : certificates[i].is_passing

====
